---- MODULE Spec2Model ----
(***************************************************************************)
(* Sales dashboard back end (backend/src/controllers/salesController.ts):  *)
(* the dataset loader getSalesData and the three request handlers          *)
(* getStates, getDateRange and getDashboardData; and the Dashboard          *)
(* component that queries them (its state and its effects).                *)
(*                                                                         *)
(* Conventions of the model                                                *)
(*  - A JavaScript object used as a string-keyed map is a sequence of      *)
(*    [name, value] entries in insertion order, which is the order         *)
(*    Object.entries reports for keys that are ordinary labels (the names  *)
(*    used here are never array-index-like).                               *)
(*  - Currency amounts are exact fixed-point numbers counted in 1/Scale    *)
(*    of a currency unit; a discount is counted in percent points          *)
(*    (Discount 0.2 is 20).  Binary floating-point error is not modelled.  *)
(*  - A calendar-date string "YYYY-MM-DD" is [text |-> "iso", day |-> d],  *)
(*    d the day number; "" is the absent (falsy) query parameter.          *)
(***************************************************************************)
EXTENDS Integers, Sequences, FiniteSets

VARIABLES file,    \* the backing store data/sales.json
          req,     \* the last request served
          status,  \* its HTTP status
          body,    \* its JSON body
          noted    \* history: one earlier dashboard answer, kept for comparison

\* The Dashboard component: its useState cells and the requests it awaits
VARIABLES data, loading, error, selectedState, states, dateRange,
          fetches  \* the axios.get calls not yet settled, oldest first

serverVars == <<req, status, body>>
clientVars == <<data, loading, error, selectedState, states, dateRange, fetches>>
vars == <<file, req, status, body, noted, data, loading, error, selectedState,
          states, dateRange, fetches>>

----------------------------------------------------------------------------
(* Bounds of the explored inputs *)

MaxLen == 2       \* stores holding every sequence of pool records up to this length
PoolSize == 4     \* number of records in the pool of those stores
MaxRecords == 13  \* longest generated store
MaxSeed == 3      \* number of generated stores of each length
MaxDay == 3       \* order dates are days 1..MaxDay
Scale == 2        \* amounts are counted in 1/Scale of a currency unit

\* slice(0, 10)
TopN == 10

\* Date.prototype.getTime counts milliseconds; one calendar day
MsPerDay == 86400000

MaxInFlight == 3  \* requests the Dashboard component awaits at one time

----------------------------------------------------------------------------
(* Values of the SalesRecord fields *)

StateNames == <<"Texas", "Ohio">>
CityNames == <<"Austin", "Dayton", "Akron">>
ProductNames == <<"P01", "P02", "P03", "P04", "P05", "P06",
                  "P07", "P08", "P09", "P10", "P11", "P12">>
SubCategoryNames == <<"Phones", "Chairs", "Tables", "Binders">>
CategoryNames == <<"Technology", "Furniture">>
SegmentNames == <<"Consumer", "Corporate">>
SalesValues == <<5, -3, 0, 8, 3, 12, 1>>
DiscountValues == <<0, 20, 50>>
ProfitValues == <<3, -5, 0, 1>>

Pick(seq, n) == seq[(n % Len(seq)) + 1]

IsoDate(d) == [text |-> "iso", day |-> d]
NoDate == [text |-> "", day |-> 0]
GarbageDate == [text |-> "garbage", day |-> 0]

\* The i-th record of the generated store with seed k
SalesRecord(i, k) ==
    [ State        |-> Pick(StateNames, (i * k) \div 2),
      OrderDate    |-> IsoDate(((i * k + k) % MaxDay) + 1),
      City         |-> Pick(CityNames, i + 2 * k),
      ProductName  |-> Pick(ProductNames, i - 1),
      SubCategory  |-> Pick(SubCategoryNames, i + 2),
      Category     |-> Pick(CategoryNames, i + 2),
      Segment      |-> Pick(SegmentNames, i * k),
      Sales        |-> Pick(SalesValues, i * k + i),
      Quantity     |-> ((i + k) % 3) + 1,
      Discount     |-> Pick(DiscountValues, i + k * k),
      Profit       |-> Pick(ProfitValues, i * (k + 1)) ]

RecordPool == { SalesRecord(i, 1) : i \in 1..PoolSize }

RECURSIVE SeqsUpTo(_, _)
SeqsUpTo(S, n) ==
    IF n = 0 THEN { <<>> }
    ELSE LET shorter == SeqsUpTo(S, n - 1)
         IN  shorter \cup { Append(s, x) : s \in shorter, x \in S }

GeneratedStore(n, k) == [ i \in 1..n |-> SalesRecord(i, k) ]

Datasets ==
    SeqsUpTo(RecordPool, MaxLen)
      \cup { GeneratedStore(n, k) : n \in 0..MaxRecords, k \in 1..MaxSeed }

\* What data/sales.json can be when a request arrives
Files ==
    { [kind |-> "missing", records |-> <<>>],
      [kind |-> "corrupt", records |-> <<>>],
      [kind |-> "null", records |-> <<>>] }
      \cup { [kind |-> "array", records |-> d] : d \in Datasets }

\* Request parameters
StateParams == { "", "All States", "Texas", "Ohio", "Utah" }
DateParams == { NoDate, GarbageDate } \cup { IsoDate(d) : d \in 1..MaxDay }

----------------------------------------------------------------------------
(* getSalesData: readFileSync and JSON.parse under try/catch *)

getSalesData(f) ==
    IF f.kind = "array" THEN f.records   \* parsed: return salesData
    ELSE <<>>                            \* readFileSync, JSON.parse or .length threw

----------------------------------------------------------------------------
(* JavaScript helpers *)

\* Math.round of the amount a / Scale: floor(x + 0.5)
MathRound(a) == (2 * a + Scale) \div (2 * Scale)

\* Math.round(x * 10) for the quotient x = num / den, den > 0
MathRoundTenths(num, den) == (20 * num + den) \div (2 * den)

\* new Date(string)
NewDate(s) ==
    IF s.text = "iso" THEN [nan |-> FALSE, time |-> s.day * MsPerDay]
    ELSE [nan |-> TRUE, time |-> 0]

\* the bounds taken as exclusive: a < b
DateLE_Strict(a, b) == ~a.nan /\ ~b.nan /\ a.time < b.time

\* a <= b on Date objects (false when either is an Invalid Date)
DateLE(a, b) == ~a.nan /\ ~b.nan /\ a.time <= b.time

\* date.toISOString().split('T')[0]
ToISODate(t) == IsoDate(t \div MsPerDay)

\* the array spread without the Set
Distinct_KeepAll(values, acc) == values

\* [...new Set(values)]: first occurrences, in order
RECURSIVE Distinct(_, _)
Distinct(values, acc) ==
    IF values = <<>> THEN acc
    ELSE Distinct(Tail(values),
                  IF \E i \in 1..Len(acc) : acc[i] = Head(values)
                  THEN acc ELSE Append(acc, Head(values)))

Min(a, b) == IF a <= b THEN a ELSE b

----------------------------------------------------------------------------
(* Aggregation steps of getDashboardData *)

\* acc[key] = sales: the running sum overwritten
AddTo_Overwrite(acc, key, sales) ==
    IF \E i \in 1..Len(acc) : acc[i].name = key
    THEN [ i \in 1..Len(acc) |->
             IF acc[i].name = key THEN [name |-> key, value |-> sales] ELSE acc[i] ]
    ELSE Append(acc, [name |-> key, value |-> sales])

\* acc[key] = (acc[key] || 0) + sales  on an insertion-ordered object
AddTo(acc, key, sales) ==
    IF \E i \in 1..Len(acc) : acc[i].name = key
    THEN [ i \in 1..Len(acc) |->
             IF acc[i].name = key
             THEN [name |-> key, value |-> acc[i].value + sales]
             ELSE acc[i] ]
    ELSE Append(acc, [name |-> key, value |-> sales])

\* filteredData.reduce((acc, record) => { acc[record[field]] = ...; return acc }, {})
RECURSIVE GroupSum(_, _, _)
GroupSum(recs, field, acc) ==
    IF recs = <<>> THEN acc
    ELSE GroupSum(Tail(recs), field, AddTo(acc, Head(recs)[field], Head(recs).Sales))

\* filteredData.reduce((sum, record) => sum + record[field], 0)
RECURSIVE SumField(_, _)
SumField(recs, field) ==
    IF recs = <<>> THEN 0
    ELSE Head(recs)[field] + SumField(Tail(recs), field)

\* filteredData.reduce((sum, record) => sum + (record.Sales * record.Discount), 0)
RECURSIVE SumDiscount(_)
SumDiscount(recs) ==
    IF recs = <<>> THEN 0
    ELSE Head(recs).Sales * Head(recs).Discount + SumDiscount(Tail(recs))

\* totalSales > 0 ? (totalDiscount / totalSales) * 100 : 0, then
\* Math.round(discountPercentage * 10) / 10, counted in tenths of a percent
discountPercentage(totalSales, totalDiscount) ==
    IF totalSales > 0 THEN MathRoundTenths(totalDiscount, totalSales) ELSE 0

\* the comparator reversed: (a, b) => a[1] - b[1]
InsertDesc_Ascending(sorted, e) ==
    LET before == { i \in 1..Len(sorted) : sorted[i].value <= e.value }
        k == Cardinality(before)
    IN  SubSeq(sorted, 1, k) \o <<e>> \o SubSeq(sorted, k + 1, Len(sorted))

\* One step of the stable sort: e goes after every entry that is not smaller
InsertDesc(sorted, e) ==
    LET before == { i \in 1..Len(sorted) : sorted[i].value >= e.value }
        k == Cardinality(before)
    IN  SubSeq(sorted, 1, k) \o <<e>> \o SubSeq(sorted, k + 1, Len(sorted))

\* entries.sort((a, b) => b[1] - a[1]): stable, descending by value
RECURSIVE SortDesc(_, _)
SortDesc(entries, sorted) ==
    IF entries = <<>> THEN sorted
    ELSE SortDesc(Tail(entries), InsertDesc(sorted, Head(entries)))

\* .slice(0, 10)
Slice(entries) == SubSeq(entries, 1, Min(TopN, Len(entries)))

\* .map(([name, sales]) => ({ name, sales }))
top10Products(recs) ==
    LET productSalesMap == GroupSum(recs, "ProductName", <<>>)
        top == Slice(SortDesc(productSalesMap, <<>>))
    IN  [ i \in 1..Len(top) |-> [name |-> top[i].name, sales |-> top[i].value] ]

\* the sentinel taken for the name of a state
FilterByState_NoSentinel(recs, state) ==
    IF state # ""
    THEN LET Keep(r) == r.State = state IN SelectSeq(recs, Keep)
    ELSE recs

\* if (state && state !== 'All States') filteredData = filteredData.filter(...)
FilterByState(recs, state) ==
    IF state # "" /\ state # "All States"
    THEN LET Keep(r) == r.State = state IN SelectSeq(recs, Keep)
    ELSE recs

\* if (startDate && endDate) filteredData = filteredData.filter(...)
FilterByDate(recs, startDate, endDate) ==
    IF startDate.text # "" /\ endDate.text # ""
    THEN LET Keep(r) ==
                 /\ DateLE(NewDate(startDate), NewDate(r.OrderDate))
                 /\ DateLE(NewDate(r.OrderDate), NewDate(endDate))
         IN  SelectSeq(recs, Keep)
    ELSE recs

filteredData(salesData, q) ==
    FilterByDate(FilterByState(salesData, q.state), q.startDate, q.endDate)

ErrorBody(msg) == [error |-> msg]

\* the pairs sorted by value, as the product list is
salesBySubCategory_Sorted(recs) == SortDesc(GroupSum(recs, "SubCategory", <<>>), <<>>)

\* Object.entries(filteredData.reduce(...)).map(([name, value]) => ({ name, value }))
salesBySubCategory(recs) == GroupSum(recs, "SubCategory", <<>>)

\* the response object of getDashboardData
DashboardResponse(recs) ==
    [ totalSales         |-> MathRound(SumField(recs, "Sales")),
      quantitySold       |-> SumField(recs, "Quantity"),
      discountPercentage |-> discountPercentage(SumField(recs, "Sales"), SumDiscount(recs)),
      totalProfit        |-> MathRound(SumField(recs, "Profit")),
      salesByCity        |-> GroupSum(recs, "City", <<>>),
      salesByProducts    |-> top10Products(recs),
      salesByCategory    |-> GroupSum(recs, "Category", <<>>),
      salesBySubCategory |-> salesBySubCategory(recs),
      salesBySegment     |-> GroupSum(recs, "Segment", <<>>) ]

----------------------------------------------------------------------------
(* The handlers *)

StatesOf(recs) == [ i \in 1..Len(recs) |-> recs[i].State ]

\* the first date taken for the earliest
MathMin_First(times) == times[1]

\* Math.min(...dates.map(date => date.getTime())) and Math.max(...)
RECURSIVE MathMin(_)
MathMin(times) ==
    IF Len(times) = 1 THEN times[1]
    ELSE LET m == MathMin(Tail(times)) IN IF times[1] <= m THEN times[1] ELSE m
RECURSIVE MathMax(_)
MathMax(times) ==
    IF Len(times) = 1 THEN times[1]
    ELSE LET m == MathMax(Tail(times)) IN IF times[1] >= m THEN times[1] ELSE m

Answered(op) == req.op = op /\ status # 0

NoParams == [state |-> "", startDate |-> NoDate, endDate |-> NoDate]

Requests ==
    { [op |-> "getStates", params |-> NoParams] }
      \cup { [op |-> "getDateRange", params |-> [NoParams EXCEPT !.state = s]] :
               s \in StateParams \ {""} }
      \cup { [op |-> "getDashboardData",
              params |-> [state |-> s, startDate |-> a, endDate |-> b]] :
               s \in StateParams, a \in DateParams, b \in DateParams }

\* app.get(route, handler): a request arrives and waits for its handler, which
\* runs to completion before the next request is taken up
Route(q) ==
    /\ req.op = "none" \/ status # 0
    /\ req' = q
    /\ status' = 0
    /\ body' = [pending |-> TRUE]
    /\ UNCHANGED file

getStates ==
    /\ req.op = "getStates" /\ status = 0
    /\ status' = 200
    /\ body' = [states |-> Distinct(StatesOf(getSalesData(file)), <<>>)]
    /\ UNCHANGED <<file, req>>

getDateRange ==
    LET Keep(r) == r.State = req.params.state
        stateRecords == SelectSeq(getSalesData(file), Keep)
        dates == [ i \in 1..Len(stateRecords) |-> NewDate(stateRecords[i].OrderDate).time ]
    IN  /\ req.op = "getDateRange" /\ status = 0
        /\ IF Len(stateRecords) = 0
           THEN /\ status' = 404
                /\ body' = ErrorBody("State not found")
           ELSE /\ status' = 200
                /\ body' = [minDate |-> ToISODate(MathMin(dates)),
                            maxDate |-> ToISODate(MathMax(dates))]
        /\ UNCHANGED <<file, req>>

\* getDashboardData refusing an empty filtered set as it refuses an empty dataset
getDashboardData_EmptyFilterFails ==
    LET salesData == getSalesData(file)
        recs == filteredData(salesData, req.params)
    IN  /\ req.op = "getDashboardData" /\ status = 0
        /\ IF Len(recs) = 0
           THEN /\ status' = 500
                /\ body' = ErrorBody("Failed to process dashboard data")
           ELSE /\ status' = 200
                /\ body' = DashboardResponse(recs)
        /\ UNCHANGED <<file, req>>

\* getDashboardData without the salesData.length === 0 check
getDashboardData_NoEmptyCheck ==
    /\ req.op = "getDashboardData" /\ status = 0
    /\ status' = 200
    /\ body' = DashboardResponse(filteredData(getSalesData(file), req.params))
    /\ UNCHANGED <<file, req>>

\* getDashboardData narrowing the stored records themselves instead of a copy
getDashboardData_FilterInPlace ==
    LET salesData == getSalesData(file)
    IN  /\ req.op = "getDashboardData" /\ status = 0
        /\ IF Len(salesData) = 0
           THEN /\ status' = 500
                /\ body' = ErrorBody("Failed to process dashboard data")
                /\ file' = file
           ELSE /\ status' = 200
                /\ body' = DashboardResponse(filteredData(salesData, req.params))
                /\ file' = [file EXCEPT !.records = filteredData(salesData, req.params)]
        /\ UNCHANGED req

getDashboardData ==
    LET salesData == getSalesData(file)
    IN  /\ req.op = "getDashboardData" /\ status = 0
        /\ IF Len(salesData) = 0
           THEN /\ status' = 500     \* throw new Error('No sales data available')
                /\ body' = ErrorBody("Failed to process dashboard data")
           ELSE /\ status' = 200
                /\ body' = DashboardResponse(filteredData(salesData, req.params))
        /\ UNCHANGED <<file, req>>

----------------------------------------------------------------------------

NullData == [null |-> TRUE]
Nothing == [op |-> "none"]

\* the Dashboard component as mounted: the useState defaults, with the requests
\* of fetchStates and of the first fetchData under way (fetchDateRange returns
\* at once for 'All States')
Mounted ==
    /\ data = NullData
    /\ loading = TRUE
    /\ error = ""
    /\ selectedState = "All States"
    /\ states = <<"All States">>
    /\ dateRange = [from |-> IsoDate(1), to |-> IsoDate(MaxDay)]
    /\ fetches = << [op |-> "getStates", params |-> NoParams],
                    [op |-> "getDashboardData",
                     params |-> [state |-> "All States", startDate |-> IsoDate(1),
                                 endDate |-> IsoDate(MaxDay)]] >>

Init ==
    /\ file \in Files
    /\ req = [op |-> "none", params |-> NoParams]
    /\ status = 0
    /\ body = [pending |-> FALSE]
    /\ noted = Nothing
    /\ Mounted

Next ==
    \/ (\E q \in Requests : Route(q)) /\ UNCHANGED <<noted, clientVars>>
    \/ getStates /\ UNCHANGED <<noted, clientVars>>
    \/ getDateRange /\ UNCHANGED <<noted, clientVars>>
    \/ getDashboardData /\ UNCHANGED <<noted, clientVars>>

Spec == Init /\ [][Next]_vars

----------------------------------------------------------------------------
(* The handlers with a history of one earlier answer *)

\* the requests replayed against the history
RepeatedRequests ==
    { q \in Requests :
        /\ q.params.state \in {"", "All States", "Ohio"}
        /\ q.params.startDate \in {NoDate, IsoDate(1)}
        /\ q.params.endDate \in {NoDate, IsoDate(MaxDay)} }

\* keep the answer just given, once
Note ==
    /\ Answered("getDashboardData")
    /\ noted = Nothing
    /\ noted' = [op |-> "noted", file |-> file, params |-> req.params,
                 status |-> status, body |-> body, later |-> 0]
    /\ UNCHANGED <<file, serverVars, clientVars>>

\* count the requests answered after the noted one (up to two)
Later ==
    noted' = IF noted = Nothing THEN noted
             ELSE [noted EXCEPT !.later = IF @ < 2 THEN @ + 1 ELSE @]

NextRepeated ==
    \/ (\E q \in RepeatedRequests : Route(q)) /\ UNCHANGED <<noted, clientVars>>
    \/ getStates /\ Later /\ UNCHANGED clientVars
    \/ getDateRange /\ Later /\ UNCHANGED clientVars
    \/ getDashboardData /\ Later /\ UNCHANGED clientVars
    \/ Note

SpecRepeated == Init /\ [][NextRepeated]_vars


----------------------------------------------------------------------------
(* Notions the properties are stated in, defined on the stored records     *)
(* themselves rather than through the handlers' code                       *)

Stored == IF file.kind = "array" THEN file.records ELSE <<>>

Supplied(d) == d.text # ""

\* indices of the stored records a region value selects
InRegion(state) ==
    { i \in 1..Len(Stored) : state \in {"", "All States"} \/ Stored[i].State = state }

\* indices of the stored records inside the inclusive range of two calendar dates
InRange(a, b) ==
    { i \in 1..Len(Stored) : a.day <= Stored[i].OrderDate.day /\ Stored[i].OrderDate.day <= b.day }

\* indices of the stored records the request's filters select
Matched ==
    LET p == req.params
    IN  IF Supplied(p.startDate) /\ Supplied(p.endDate)
        THEN IF p.startDate.text = "iso" /\ p.endDate.text = "iso"
             THEN InRegion(p.state) \cap InRange(p.startDate, p.endDate)
             ELSE {}
        ELSE InRegion(p.state)

\* the stored records at the indices I, in stored order
RECURSIVE Picked(_, _)
Picked(I, from) ==
    IF from > Len(Stored) THEN <<>>
    ELSE (IF from \in I THEN <<Stored[from]>> ELSE <<>>) \o Picked(I, from + 1)

RECURSIVE SalesOver(_)
SalesOver(I) ==
    IF I = {} THEN 0
    ELSE LET i == CHOOSE i \in I : TRUE IN Stored[i].Sales + SalesOver(I \ {i})

WithField(I, field, v) == { i \in I : Stored[i][field] = v }
ValuesOf(I, field) == { Stored[i][field] : i \in I }

RECURSIVE SumValues(_)
SumValues(entries) ==
    IF entries = <<>> THEN 0 ELSE Head(entries).value + SumValues(Tail(entries))

FirstIndex(I, field, v) ==
    CHOOSE i \in WithField(I, field, v) : \A j \in WithField(I, field, v) : i <= j

----------------------------------------------------------------------------
(* C1: over a non-empty loaded dataset, a dashboard request whose filters   *)
(* match no record is answered successfully with all totals 0 and every     *)
(* grouping empty.                                                          *)
C1_EmptyFilterSummary ==
    (Answered("getDashboardData") /\ Stored # <<>> /\ Matched = {})
        => /\ status = 200
           /\ body.totalSales = 0
           /\ body.quantitySold = 0
           /\ body.discountPercentage = 0
           /\ body.totalProfit = 0
           /\ body.salesByCity = <<>>
           /\ body.salesByProducts = <<>>
           /\ body.salesByCategory = <<>>
           /\ body.salesBySubCategory = <<>>
           /\ body.salesBySegment = <<>>

\* a region nobody sells in, and a date range no order falls in
C1_Witness ==
    /\ Answered("getDashboardData") /\ Stored # <<>> /\ Matched = {}
    /\ req.params.state = "Utah"
    /\ ~Supplied(req.params.startDate)
    /\ body.salesByProducts = <<>>

(* C2: when the loader yields no records (file missing, unparsable, not an  *)
(* array, or an empty array) every dashboard request fails with an error    *)
(* status and an {error} body, never a summary; and the loader hands its    *)
(* caller the empty sequence instead of raising.                            *)
C2_NoDataFails ==
    /\ (file.kind # "array" \/ file.records = <<>>) => getSalesData(file) = <<>>
    /\ (Answered("getDashboardData") /\ (file.kind # "array" \/ file.records = <<>>))
          => /\ status = 500
             /\ DOMAIN body = {"error"}

C2_Witness ==
    /\ Answered("getDashboardData")
    /\ file.kind = "corrupt"
    /\ req.params.state = "Texas" /\ req.params.startDate = IsoDate(1)
    /\ status = 500

(* C3: salesByProducts holds min(10, number of distinct product names)      *)
(* entries with distinct names, in non-increasing order of sales, each      *)
(* entry's sales the sum of Sales over the matched records of that product, *)
(* and no product left out sells more than a listed one: the list is the    *)
(* first 10 of a full descending sort of the per-product sums.              *)
C3_TopProducts ==
    (Answered("getDashboardData") /\ status = 200)
        => LET top == body.salesByProducts
               products == ValuesOf(Matched, "ProductName")
               listed == { top[i].name : i \in 1..Len(top) }
               total(p) == SalesOver(WithField(Matched, "ProductName", p))
           IN  /\ Len(top) <= 10
               /\ Len(top) = (IF Cardinality(products) < 10 THEN Cardinality(products) ELSE 10)
               /\ \A i, j \in 1..Len(top) : i < j =>
                      top[i].sales >= top[j].sales /\ top[i].name # top[j].name
               /\ \A i \in 1..Len(top) :
                      top[i].name \in products /\ top[i].sales = total(top[i].name)
               /\ \A p \in products \ listed : \A i \in 1..Len(top) : total(p) <= top[i].sales

\* more than ten products, one of them sold in several records, and the list
\* not in the order the products were met
C3_Witness ==
    /\ Answered("getDashboardData") /\ status = 200
    /\ Cardinality(ValuesOf(Matched, "ProductName")) > 10
    /\ Len(body.salesByProducts) = 10
    /\ \E p \in ValuesOf(Matched, "ProductName") :
           Cardinality(WithField(Matched, "ProductName", p)) > 1
    /\ \E i \in 1..9 : body.salesByProducts[i].sales > body.salesByProducts[i + 1].sales
    /\ body.salesByProducts[1].name # Stored[1].ProductName

(* C4: for a non-empty filtered set the values of salesByCity add up to the *)
(* unrounded total sales: there is one bucket per city met, holding the sum *)
(* of Sales of exactly the matched records of that city.                    *)
C4_CitySumsToTotal ==
    (Answered("getDashboardData") /\ status = 200 /\ Matched # {})
        => LET byCity == body.salesByCity
           IN  /\ SumValues(byCity) = SalesOver(Matched)
               /\ SumValues(byCity) = SumField(filteredData(getSalesData(file), req.params), "Sales")
               /\ body.totalSales = MathRound(SumValues(byCity))
               /\ { byCity[i].name : i \in 1..Len(byCity) } = ValuesOf(Matched, "City")
               /\ \A i, j \in 1..Len(byCity) : i # j => byCity[i].name # byCity[j].name
               /\ \A i \in 1..Len(byCity) :
                      byCity[i].value = SalesOver(WithField(Matched, "City", byCity[i].name))

\* several cities, one of them with several records, a total that is not a
\* whole amount
C4_Witness ==
    /\ Answered("getDashboardData") /\ status = 200
    /\ Len(body.salesByCity) >= 2
    /\ \E c \in ValuesOf(Matched, "City") : Cardinality(WithField(Matched, "City", c)) > 1
    /\ SalesOver(Matched) % Scale # 0
    /\ SalesOver(Matched) > 0

RECURSIVE DiscountOver(_)
DiscountOver(I) ==
    IF I = {} THEN 0
    ELSE LET i == CHOOSE i \in I : TRUE
         IN  Stored[i].Sales * Stored[i].Discount + DiscountOver(I \ {i})

\* num / den in tenths, rounded half up, for den # 0
RoundedTenths(num, den) ==
    IF den > 0 THEN (20 * num + den) \div (2 * den)
    ELSE (20 * (0 - num) + (0 - den)) \div (2 * (0 - den))

(* C5: the discount percentage is sum(Sales * Discount) / sum(Sales) * 100  *)
(* whenever sum(Sales) is not 0, and 0 when sum(Sales) is 0 (shown here as  *)
(* the response shows it, rounded to one decimal).                          *)
C5_WeightedDiscount ==
    (Answered("getDashboardData") /\ status = 200)
        => body.discountPercentage =
               (IF SalesOver(Matched) # 0
                THEN RoundedTenths(DiscountOver(Matched), SalesOver(Matched))
                ELSE 0)

\* What the code does: the quotient only for a positive sum of Sales, 0 for a
\* sum that is zero or negative
C5_WeightedWhenPositive ==
    (Answered("getDashboardData") /\ status = 200)
        => body.discountPercentage =
               (IF SalesOver(Matched) > 0
                THEN RoundedTenths(DiscountOver(Matched), SalesOver(Matched))
                ELSE 0)

\* the weighted value differs from the plain mean of the Discount fields
C5_WeightedNotMean ==
    /\ Answered("getDashboardData") /\ status = 200
    /\ Cardinality(Matched) = 2
    /\ SalesOver(Matched) > 0
    /\ LET mean2 == 5 * (Stored[1].Discount + Stored[2].Discount)
       IN  Matched = {1, 2} /\ body.discountPercentage # mean2

(* C6: the region filter keeps exactly the records whose State is the       *)
(* requested value, in stored order; 'All States' or no value keeps every   *)
(* record, unchanged and in the same order.                                 *)
C6_RegionFilter ==
    (Answered("getDashboardData") /\ status = 200)
        => LET p == req.params
               kept == FilterByState(getSalesData(file), p.state)
               byName == { i \in 1..Len(Stored) : Stored[i].State = p.state }
           IN  /\ (p.state \in {"", "All States"}) => kept = Stored
               /\ (p.state \notin {"", "All States"}) => kept = Picked(byName, 1)
               /\ body = DashboardResponse(FilterByDate(kept, p.startDate, p.endDate))
               /\ (~Supplied(p.startDate) /\ p.state \in {"", "All States"})
                      => body.quantitySold = SumField(Stored, "Quantity")

\* a state that some records have and others have not
C6_Witness ==
    /\ Answered("getDashboardData") /\ status = 200
    /\ req.params.state = "Ohio"
    /\ ~Supplied(req.params.endDate)
    /\ InRegion("Ohio") # {} /\ InRegion("Ohio") # 1..Len(Stored)
    /\ Len(Stored) >= 3
    /\ body.quantitySold < SumField(Stored, "Quantity")

\* the sentinel: every record passes
C6_WitnessAll ==
    /\ Answered("getDashboardData") /\ status = 200
    /\ req.params.state = "All States"
    /\ Cardinality(ValuesOf(1..Len(Stored), "State")) = 2

(* C7: with both bounds supplied the date filter keeps exactly the records   *)
(* whose Order Date d has startDate <= d <= endDate, both ends included;     *)
(* with either bound absent it filters nothing; startDate > endDate keeps    *)
(* nothing.                                                                  *)
C7_DateFilter ==
    (Answered("getDashboardData") /\ status = 200)
        => LET p == req.params
               inState == FilterByState(getSalesData(file), p.state)
               kept == FilterByDate(inState, p.startDate, p.endDate)
           IN  /\ (p.startDate.text = "iso" /\ p.endDate.text = "iso")
                     => /\ kept = Picked(InRegion(p.state) \cap InRange(p.startDate, p.endDate), 1)
                        /\ (p.startDate.day > p.endDate.day => kept = <<>>)
               /\ (~Supplied(p.startDate) \/ ~Supplied(p.endDate)) => kept = inState
               /\ body = DashboardResponse(kept)
               /\ body.quantitySold = SumField(Picked(Matched, 1), "Quantity")

\* a one-day range: a record on the day itself is kept, others are dropped
C7_Witness ==
    /\ Answered("getDashboardData") /\ status = 200
    /\ req.params.startDate = IsoDate(2) /\ req.params.endDate = IsoDate(2)
    /\ Matched # {} /\ Matched # InRegion(req.params.state)
    /\ body.quantitySold > 0

(* C8: getDateRange answers 404 with an error body exactly when no stored   *)
(* record has the requested State (so also when nothing could be loaded);  *)
(* otherwise minDate and maxDate are the earliest and the latest Order Date *)
(* of that state's records: minDate <= maxDate and both are order dates of  *)
(* records of that state.                                                   *)
C8_DateBounds ==
    Answered("getDateRange")
        => LET ofState == { i \in 1..Len(Stored) : Stored[i].State = req.params.state }
               days == { Stored[i].OrderDate.day : i \in ofState }
           IN  /\ (ofState = {}) <=> (status = 404)
               /\ (ofState = {}) => DOMAIN body = {"error"}
               /\ (ofState # {}) =>
                      /\ status = 200
                      /\ DOMAIN body = {"minDate", "maxDate"}
                      /\ body.minDate.text = "iso" /\ body.maxDate.text = "iso"
                      /\ body.minDate.day \in days /\ body.maxDate.day \in days
                      /\ \A d \in days : body.minDate.day <= d /\ d <= body.maxDate.day
                      /\ body.minDate.day <= body.maxDate.day

\* records of the state on several days, the first of them not the earliest
C8_Witness ==
    /\ Answered("getDateRange") /\ status = 200
    /\ body.minDate.day < body.maxDate.day
    /\ LET ofState == { i \in 1..Len(Stored) : Stored[i].State = req.params.state }
           first == CHOOSE i \in ofState : \A j \in ofState : i <= j
       IN  Stored[first].OrderDate.day > body.minDate.day

\* the state is unknown to a loaded dataset, or the dataset could not be loaded
C8_WitnessNotFound ==
    /\ Answered("getDateRange") /\ status = 404
    /\ file.kind = "missing"

(* C9: salesBySubCategory holds one {name, value} pair per Sub-Category met *)
(* in the filtered records, value the sum of Sales of that sub-category,    *)
(* the pairs in the order in which the sub-categories first occur.          *)
C9_SubCategoryOrder ==
    (Answered("getDashboardData") /\ status = 200)
        => LET pairs == body.salesBySubCategory
           IN  /\ { pairs[i].name : i \in 1..Len(pairs) } = ValuesOf(Matched, "SubCategory")
               /\ Len(pairs) = Cardinality(ValuesOf(Matched, "SubCategory"))
               /\ \A i \in 1..Len(pairs) :
                      /\ DOMAIN pairs[i] = {"name", "value"}
                      /\ pairs[i].value = SalesOver(WithField(Matched, "SubCategory", pairs[i].name))
               /\ \A i, j \in 1..Len(pairs) : i < j =>
                      FirstIndex(Matched, "SubCategory", pairs[i].name)
                          < FirstIndex(Matched, "SubCategory", pairs[j].name)

\* three or more sub-categories, one with several records, listed neither by
\* falling nor by rising value
C9_Witness ==
    /\ Answered("getDashboardData") /\ status = 200
    /\ Len(body.salesBySubCategory) >= 3
    /\ \E c \in ValuesOf(Matched, "SubCategory") :
           Cardinality(WithField(Matched, "SubCategory", c)) > 1
    /\ \E i \in 1..(Len(body.salesBySubCategory) - 1) :
           body.salesBySubCategory[i].value < body.salesBySubCategory[i + 1].value
    /\ \E i \in 1..(Len(body.salesBySubCategory) - 1) :
           body.salesBySubCategory[i].value > body.salesBySubCategory[i + 1].value

(* C10: getStates answers successfully with a list holding every State of   *)
(* the stored records exactly once and nothing else; the empty list for an  *)
(* empty or unloadable dataset.                                             *)
C10_DistinctStates ==
    Answered("getStates")
        => /\ status = 200
           /\ DOMAIN body = {"states"}
           /\ { body.states[i] : i \in 1..Len(body.states) } = ValuesOf(1..Len(Stored), "State")
           /\ \A i, j \in 1..Len(body.states) : i # j => body.states[i] # body.states[j]
           /\ (file.kind # "array" \/ file.records = <<>>) => body.states = <<>>

\* a state occurring in several records beside another state
C10_Witness ==
    /\ Answered("getStates") /\ status = 200
    /\ Len(body.states) = 2
    /\ Len(Stored) > 2

C10_WitnessUnloadable ==
    /\ Answered("getStates") /\ status = 200
    /\ file.kind = "corrupt"
    /\ body.states = <<>>

\* what getDashboardData answers to a query over the store as it is
DashboardAnswer(params) ==
    IF Len(getSalesData(file)) = 0
    THEN [status |-> 500, body |-> ErrorBody("Failed to process dashboard data")]
    ELSE [status |-> 200,
          body |-> DashboardResponse(filteredData(getSalesData(file), params))]

----------------------------------------------------------------------------
(* The Dashboard component: user input, effects, and the settling of the    *)
(* requests it awaits.  The server answers each request from the store as   *)
(* described by the handlers above; answers may come back in any order.     *)

\* what getDateRange answers for a state over the store as it is
DateRangeAnswer(state) ==
    LET Keep(r) == r.State = state
        stateRecords == SelectSeq(getSalesData(file), Keep)
        dates == [ i \in 1..Len(stateRecords) |-> NewDate(stateRecords[i].OrderDate).time ]
    IN  IF Len(stateRecords) = 0
        THEN [status |-> 404, body |-> ErrorBody("State not found")]
        ELSE [status |-> 200,
              body |-> [minDate |-> ToISODate(MathMin(dates)),
                        maxDate |-> ToISODate(MathMax(dates))]]

\* the stores the component is run against
ClientFiles ==
    { [kind |-> "missing", records |-> <<>>],
      [kind |-> "array", records |-> GeneratedStore(MaxLen + 2, 1)] }

\* values picked in the two date inputs
DateInputs == { IsoDate(d) : d \in 1..MaxDay }

\* params of the axios.get in fetchData
DashboardQuery(state, range) ==
    [op |-> "getDashboardData",
     params |-> [state |-> state, startDate |-> range.from, endDate |-> range.to]]

\* the filter controls are rendered only past "if (loading) return <Spinner>"
\* and "if (error) return <Alert>"
ControlsShown == ~loading /\ error = ""

Without(seq, i) == SubSeq(seq, 1, i - 1) \o SubSeq(seq, i + 1, Len(seq))

\* onChange of the state select: setSelectedState, then the effects
\* fetchDateRange and fetchData run
setSelectedState(state) ==
    /\ ControlsShown
    /\ \E i \in 1..Len(states) : states[i] = state
    /\ state # selectedState
    /\ selectedState' = state
    /\ loading' = TRUE
    /\ error' = ""
    /\ fetches' = fetches
         \o (IF state = "All States" THEN <<>>
             ELSE << [op |-> "getDateRange", params |-> [NoParams EXCEPT !.state = state]] >>)
         \o << DashboardQuery(state, dateRange) >>
    /\ Len(fetches') <= MaxInFlight
    /\ UNCHANGED <<file, serverVars, noted, data, states, dateRange>>

\* onChange of a date input: setDateRange, then the effect fetchData runs
setDateRange(range) ==
    /\ ControlsShown
    /\ range # dateRange
    /\ range.from = dateRange.from \/ range.to = dateRange.to
    /\ Len(fetches) < MaxInFlight
    /\ dateRange' = range
    /\ loading' = TRUE
    /\ error' = ""
    /\ fetches' = Append(fetches, DashboardQuery(selectedState, range))
    /\ UNCHANGED <<file, serverVars, noted, data, states, selectedState>>

\* fetchStates after its await
fetchStates(i) ==
    /\ fetches[i].op = "getStates"
    /\ states' = <<"All States">> \o Distinct(StatesOf(getSalesData(file)), <<>>)
    /\ fetches' = Without(fetches, i)
    /\ UNCHANGED <<file, serverVars, noted, data, loading, error, selectedState, dateRange>>

\* fetchDateRange after its await: setDateRange on success (and the effect
\* fetchData runs), console.error on failure
fetchDateRange(i) ==
    LET answer == DateRangeAnswer(fetches[i].params.state)
        range == [from |-> answer.body.minDate, to |-> answer.body.maxDate]
    IN  /\ fetches[i].op = "getDateRange"
        /\ IF answer.status = 200
           THEN /\ dateRange' = range
                /\ loading' = TRUE
                /\ error' = ""
                /\ fetches' = Append(Without(fetches, i), DashboardQuery(selectedState, range))
           ELSE /\ fetches' = Without(fetches, i)
                /\ UNCHANGED <<dateRange, loading, error>>
        /\ UNCHANGED <<file, serverVars, noted, data, states, selectedState>>

\* fetchData after its await: setData or setError, and setLoading(false)
fetchData(i) ==
    LET answer == DashboardAnswer(fetches[i].params)
    IN  /\ fetches[i].op = "getDashboardData"
        /\ IF answer.status = 200
           THEN data' = answer.body /\ error' = error
           ELSE data' = data
                /\ error' = "Failed to fetch dashboard data. Please try again later."
        /\ loading' = FALSE
        /\ fetches' = Without(fetches, i)
        /\ UNCHANGED <<file, serverVars, noted, states, selectedState, dateRange>>

InitClient ==
    /\ file \in ClientFiles
    /\ req = [op |-> "none", params |-> NoParams]
    /\ status = 0
    /\ body = [pending |-> FALSE]
    /\ noted = Nothing
    /\ Mounted

NextClient ==
    \/ \E state \in StateParams : setSelectedState(state)
    \/ \E from \in DateInputs, to \in DateInputs : setDateRange([from |-> from, to |-> to])
    \/ \E i \in 1..Len(fetches) : fetchStates(i)
    \/ \E i \in 1..Len(fetches) : fetchDateRange(i)
    \/ \E i \in 1..Len(fetches) : fetchData(i)

SpecClient == InitClient /\ [][NextClient]_vars

DashboardInFlight == \E i \in 1..Len(fetches) : fetches[i].op = "getDashboardData"

(* C12: once no dashboard request is outstanding, the summary displayed is  *)
(* the answer to the request for the state and date range now selected (an  *)
(* older answer never replaces a newer one), and loading stays true while a *)
(* dashboard request is still in flight.                                    *)
C12_LatestAnswerShown ==
    /\ (~DashboardInFlight /\ DashboardAnswer(DashboardQuery(selectedState, dateRange).params).status = 200)
          => data = DashboardAnswer(DashboardQuery(selectedState, dateRange).params).body
    /\ DashboardInFlight => loading = TRUE

\* the first half alone: the summary displayed, once nothing is outstanding
C12_StaleSummary ==
    (~DashboardInFlight /\ DashboardAnswer(DashboardQuery(selectedState, dateRange).params).status = 200)
        => data = DashboardAnswer(DashboardQuery(selectedState, dateRange).params).body

\* the second half alone: the spinner
C12_LoadingWhileInFlight == DashboardInFlight => loading = TRUE

====
